---------------------------- MODULE Spec2Model ----------------------------
(***************************************************************************)
(* The games / reviews / users schema of server/models.py and the seeding *)
(* script server/seed.py, as a state machine over the three tables.        *)
(*                                                                         *)
(* models.py declares the tables, their constraints and defaults, the      *)
(* relationships, the serialization rules and the association proxy        *)
(* Game.users.  The operations on a record (add + commit, attribute        *)
(* assignment + commit, delete + commit, to_dict, proxy append) are the    *)
(* ORM's, acting as those declarations configure them.                     *)
(***************************************************************************)
EXTENDS Integers, Sequences, FiniteSets, TLC

VARIABLES
    games,        \* table "games":   id -> row
    users,        \* table "users":   id -> row
    reviews,      \* table "reviews": id -> row
    now,          \* the store's clock, read by db.func.now()
    fkEnforced,   \* whether the store enforces FOREIGN KEY constraints
    result,       \* the last operation and its outcome: "ok" or the exception raised
    out,          \* the value returned by the last to_dict() call
    pc,           \* position of the seed script
    snapshot,     \* rows committed before the seed script's transaction began
    session_users,   \* seed.py: User objects pending in db.session
    session_games,   \* seed.py: Game objects pending in db.session
    session_reviews, \* seed.py: Review objects pending in db.session
    reviews_list,    \* seed.py: the Python list `reviews` (indexes of Review objects)
    g_review,        \* seed.py: the plain attribute `review` set on Game objects
    loop_i           \* seed.py: number of completed iterations of `for g in games`

vars == <<games, users, reviews, now, fkEnforced, result, out, pc, snapshot,
          session_users, session_games, session_reviews, reviews_list,
          g_review, loop_i>>

seedVars == <<pc, snapshot, session_users, session_games, session_reviews,
              reviews_list, g_review, loop_i>>

-----------------------------------------------------------------------------
(* Bounds of the model.                                                    *)

MaxGames == 2
MaxUsers == 2
MaxReviews == 2
MaxClock == 2
TimeRows == 2
PriorRows == 1
SerRows == 1
SerReviews == 2
MaxDepth == 6

-----------------------------------------------------------------------------
(* Column values.                                                          *)

\* NULL / Python None in an Integer or DateTime column.
None == 0 - 1
\* NULL / Python None in a String column.
NoneStr == "None"

EmptyTable == [i \in {} |-> None]

Max(S) == CHOOSE m \in S : \A x \in S : x <= m

\* Integer primary key, assigned by the store on INSERT: one more than the
\* largest id in the table, 1 for an empty table.
NextId(table) == IF DOMAIN table = {} THEN 1 ELSE Max(DOMAIN table) + 1

Insert(table, row) == [i \in DOMAIN table \cup {NextId(table)} |->
                          IF i \in DOMAIN table THEN table[i] ELSE row]

Remove(table, id) == [i \in DOMAIN table \ {id} |-> table[i]]

Titles == {"Mega Adventure", "Golf Pro IV"}

\* Mutant of GameRow: updated_at given a default as well.
GameRow_UpdatedAtDefault(title, genre, platform, price) ==
    [title |-> title, genre |-> genre, platform |-> platform, price |-> price,
     created_at |-> now, updated_at |-> now]

\* Game(...): created_at takes server_default now(); updated_at has only an
\* onupdate, so an INSERT leaves it NULL.
GameRow(title, genre, platform, price) ==
    [title |-> title, genre |-> genre, platform |-> platform, price |-> price,
     created_at |-> now, updated_at |-> None]

UserRow(name) == [name |-> name, created_at |-> now, updated_at |-> None]

ReviewRow(score, comment, game_id, user_id) ==
    [score |-> score, comment |-> comment, game_id |-> game_id,
     user_id |-> user_id, created_at |-> now, updated_at |-> None]

\* Mutant of TitleTaken: the column declared without unique=True.
TitleTaken_NotUnique(title, except) == FALSE

\* unique=True on games.title: a UNIQUE constraint; NULLs never collide.
TitleTaken(title, except) ==
    /\ title # NoneStr
    /\ \E g \in DOMAIN games \ except : games[g].title = title

\* db.ForeignKey("games.id") / db.ForeignKey("users.id"): the columns are
\* nullable, and a non-NULL value is checked only by a store that enforces
\* foreign keys.
FkViolation(game_id, user_id) ==
    /\ fkEnforced
    /\ \/ game_id # None /\ game_id \notin DOMAIN games
       \/ user_id # None /\ user_id \notin DOMAIN users

Idle == pc = "idle"

Outcome(op, status) == [op |-> op, status |-> status]

-----------------------------------------------------------------------------
(* Operations on Game.                                                     *)

\* db.session.add(Game(...)); db.session.commit()
CreateGame(title, genre, platform, price) ==
    /\ Idle
    /\ IF TitleTaken(title, {})
         THEN /\ result' = Outcome("CreateGame", "IntegrityError")
              /\ UNCHANGED games
         ELSE /\ result' = Outcome("CreateGame", "ok")
              /\ games' = Insert(games, GameRow(title, genre, platform, price))
    /\ UNCHANGED <<users, reviews, now, fkEnforced, out>>
    /\ UNCHANGED seedVars

\* game.title = title; game.price = price; db.session.commit()
\* An UPDATE is emitted when a value changes, or when the attribute was not
\* loaded in the session at assignment (the ORM then cannot see that nothing
\* changed); the UPDATE applies onupdate=now() to updated_at.
UpdateGame(g, title, price, loaded) ==
    /\ Idle
    /\ g \in DOMAIN games
    /\ LET changed == games[g].title # title \/ games[g].price # price
       IN  IF changed \/ ~loaded
             THEN IF TitleTaken(title, {g})
                    THEN /\ result' = Outcome("UpdateGame", "IntegrityError")
                         /\ UNCHANGED games
                    ELSE /\ result' = Outcome("UpdateGame", "ok")
                         /\ games' = [games EXCEPT ![g].title = title,
                                                   ![g].price = price,
                                                   ![g].updated_at = now]
             ELSE /\ result' = Outcome("UpdateGame", "ok")
                  /\ UNCHANGED games
    /\ UNCHANGED <<users, reviews, now, fkEnforced, out>>
    /\ UNCHANGED seedVars

\* Game.reviews has no delete cascade: deleting the parent first sets
\* game_id to NULL on each of its reviews (an UPDATE of the reviews row, so
\* its onupdate fires), then deletes the games row.
NullifyGame(g) ==
    [r \in DOMAIN reviews |->
        IF reviews[r].game_id = g
          THEN [reviews[r] EXCEPT !.game_id = None, !.updated_at = now]
          ELSE reviews[r]]

\* db.session.delete(game); db.session.commit()
DeleteGame(g) ==
    /\ Idle
    /\ g \in DOMAIN games
    /\ reviews' = NullifyGame(g)
    /\ games' = Remove(games, g)
    /\ result' = Outcome("DeleteGame", "ok")
    /\ UNCHANGED <<users, now, fkEnforced, out>>
    /\ UNCHANGED seedVars

-----------------------------------------------------------------------------
(* Operations on User.                                                     *)

\* db.session.add(User(name=...)); db.session.commit()
CreateUser(name) ==
    /\ Idle
    /\ users' = Insert(users, UserRow(name))
    /\ result' = Outcome("CreateUser", "ok")
    /\ UNCHANGED <<games, reviews, now, fkEnforced, out>>
    /\ UNCHANGED seedVars

\* user.name = name; db.session.commit()
UpdateUser(u, name, loaded) ==
    /\ Idle
    /\ u \in DOMAIN users
    /\ IF users[u].name # name \/ ~loaded
         THEN users' = [users EXCEPT ![u].name = name, ![u].updated_at = now]
         ELSE UNCHANGED users
    /\ result' = Outcome("UpdateUser", "ok")
    /\ UNCHANGED <<games, reviews, now, fkEnforced, out>>
    /\ UNCHANGED seedVars

\* User.reviews has no delete cascade either: user_id is set to NULL.
NullifyUser(u) ==
    [r \in DOMAIN reviews |->
        IF reviews[r].user_id = u
          THEN [reviews[r] EXCEPT !.user_id = None, !.updated_at = now]
          ELSE reviews[r]]

\* db.session.delete(user); db.session.commit()
DeleteUser(u) ==
    /\ Idle
    /\ u \in DOMAIN users
    /\ reviews' = NullifyUser(u)
    /\ users' = Remove(users, u)
    /\ result' = Outcome("DeleteUser", "ok")
    /\ UNCHANGED <<games, now, fkEnforced, out>>
    /\ UNCHANGED seedVars

-----------------------------------------------------------------------------
(* Operations on Review.                                                   *)

\* db.session.add(Review(score=, comment=, game_id=, user_id=)); commit().
\* Review(game=g, user=u) is the case game_id = g.id, user_id = u.id.
CreateReview(score, comment, game_id, user_id) ==
    /\ Idle
    /\ IF FkViolation(game_id, user_id)
         THEN /\ result' = Outcome("CreateReview", "IntegrityError")
              /\ UNCHANGED reviews
         ELSE /\ result' = Outcome("CreateReview", "ok")
              /\ reviews' = Insert(reviews,
                                   ReviewRow(score, comment, game_id, user_id))
    /\ UNCHANGED <<games, users, now, fkEnforced, out>>
    /\ UNCHANGED seedVars

\* review.score = score; review.game_id = game_id; review.user_id = user_id;
\* db.session.commit()
UpdateReview(r, score, game_id, user_id, loaded) ==
    /\ Idle
    /\ r \in DOMAIN reviews
    /\ LET changed == \/ reviews[r].score # score
                      \/ reviews[r].game_id # game_id
                      \/ reviews[r].user_id # user_id
       IN  IF changed \/ ~loaded
             THEN IF FkViolation(game_id, user_id)
                    THEN /\ result' = Outcome("UpdateReview", "IntegrityError")
                         /\ UNCHANGED reviews
                    ELSE /\ result' = Outcome("UpdateReview", "ok")
                         /\ reviews' = [reviews EXCEPT ![r].score = score,
                                                       ![r].game_id = game_id,
                                                       ![r].user_id = user_id,
                                                       ![r].updated_at = now]
             ELSE /\ result' = Outcome("UpdateReview", "ok")
                  /\ UNCHANGED reviews
    /\ UNCHANGED <<games, users, now, fkEnforced, out>>
    /\ UNCHANGED seedVars

\* db.session.delete(review); db.session.commit()
DeleteReview(r) ==
    /\ Idle
    /\ r \in DOMAIN reviews
    /\ reviews' = Remove(reviews, r)
    /\ result' = Outcome("DeleteReview", "ok")
    /\ UNCHANGED <<games, users, now, fkEnforced, out>>
    /\ UNCHANGED seedVars

-----------------------------------------------------------------------------
(* Relationships and the association proxy Game.users.                     *)

RECURSIVE SortedSeq(_)
SortedSeq(S) == IF S = {} THEN <<>>
                ELSE LET m == CHOOSE x \in S : \A y \in S : x <= y
                     IN  <<m>> \o SortedSeq(S \ {m})

\* game.reviews: the reviews rows whose game_id is the game's id, as a list.
GameReviews(g) == SortedSeq({r \in DOMAIN reviews : reviews[r].game_id = g})

\* user.reviews
UserReviews(u) == SortedSeq({r \in DOMAIN reviews : reviews[r].user_id = u})

\* review.game / review.user: the referenced object, None when the column
\* is NULL or names no row.
ReviewGame(r) == IF reviews[r].game_id \in DOMAIN games
                   THEN reviews[r].game_id ELSE None

ReviewUser(r) == IF reviews[r].user_id \in DOMAIN users
                   THEN reviews[r].user_id ELSE None

\* Mutant of GameUsers: the view built as the set of distinct users.
GameUsers_Distinct(g) ==
    SortedSeq({ReviewUser(r) : r \in {x \in DOMAIN reviews : reviews[x].game_id = g}})

\* game.users = association_proxy("reviews", "user"): the list
\* [r.user for r in game.reviews], one entry per review.
GameUsers(g) == [i \in 1..Len(GameReviews(g)) |-> ReviewUser(GameReviews(g)[i])]

\* creator=lambda user_obj: Review(user=user_obj): a Review with only its
\* user set; appending it to game.reviews sets its game_id.
Creator(g, u) == ReviewRow(None, NoneStr, g, u)

\* Mutant of AddUserToGame: find-or-create.
AddUserToGame_FindOrCreate(g, u) ==
    /\ Idle
    /\ g \in DOMAIN games
    /\ u \in DOMAIN users
    /\ IF \E r \in DOMAIN reviews :
             reviews[r].game_id = g /\ reviews[r].user_id = u
         THEN UNCHANGED reviews
         ELSE reviews' = Insert(reviews, Creator(g, u))
    /\ result' = Outcome("AddUserToGame", "ok")
    /\ UNCHANGED <<games, users, now, fkEnforced, out>>
    /\ UNCHANGED seedVars

\* game.users.append(user); db.session.commit()
\* The proxy calls the creator and appends the new Review to game.reviews,
\* whatever game.reviews already holds.
AddUserToGame(g, u) ==
    /\ Idle
    /\ g \in DOMAIN games
    /\ u \in DOMAIN users
    /\ reviews' = Insert(reviews, Creator(g, u))
    /\ result' = Outcome("AddUserToGame", "ok")
    /\ UNCHANGED <<games, users, now, fkEnforced, out>>
    /\ UNCHANGED seedVars

\* The store's clock advances.
Tick ==
    /\ now < MaxClock
    /\ now' = now + 1
    /\ UNCHANGED <<games, users, reviews, fkEnforced, result, out>>
    /\ UNCHANGED seedVars

-----------------------------------------------------------------------------
(* Serialization: SerializerMixin.to_dict() under the serialize_rules.     *)

GameColumns == {"id", "title", "genre", "platform", "price",
                "created_at", "updated_at"}
ReviewColumns == {"id", "score", "comment", "created_at", "updated_at",
                  "game_id", "user_id"}
UserColumns == {"id", "name", "created_at", "updated_at"}

\* Mutant of GameRules: Game declared without serialize_rules.
GameRules_Missing == {}

\* serialize_rules = ("-reviews.game",): each rule is the path it excludes.
GameRules == {<<"reviews", "game">>}
\* Mutant of ReviewRules: the rule for user left out.
ReviewRules_GameOnly == {<<"game", "reviews">>}

\* serialize_rules = ("-game.reviews", "-user.reviews",)
ReviewRules == {<<"game", "reviews">>, <<"user", "reviews">>}
\* serialize_rules = ("-reviews.user",)
UserRules == {<<"reviews", "user">>}

Columns(kind) == CASE kind = "Game" -> GameColumns
                   [] kind = "Review" -> ReviewColumns
                   [] kind = "User" -> UserColumns

\* The mapped relationships of each class; the proxy Game.users and the
\* attribute `review` set by seed.py are not mapped and are not serialized.
Relationships(kind) == CASE kind = "Game" -> {"reviews"}
                         [] kind = "Review" -> {"game", "user"}
                         [] kind = "User" -> {"reviews"}

OwnRules(kind) == CASE kind = "Game" -> GameRules
                    [] kind = "Review" -> ReviewRules
                    [] kind = "User" -> UserRules

Table(kind) == CASE kind = "Game" -> games
                 [] kind = "Review" -> reviews
                 [] kind = "User" -> users

\* Python None in the output.
NullObj == [null |-> TRUE]
\* The recursion did not end within the interpreter's stack.
RecursionError == [error |-> "RecursionError"]

\* A DateTime column is written as text.
FormatDateTime(t) == IF t = None THEN None
                     ELSE [strftime |-> "%Y-%m-%d %H:%M:%S", of |-> t]

ColumnValue(kind, id, key) ==
    IF key = "id" THEN id
    ELSE IF key \in {"created_at", "updated_at"}
           THEN FormatDateTime(Table(kind)[id][key])
           ELSE Table(kind)[id][key]

\* The rules that apply below key: the rest of each path that starts with it.
Fork(schema, key) ==
    {Tail(path) : path \in {q \in schema : Len(q) > 1 /\ Head(q) = key}}

\* A key is left out when a rule names it as the end of its path.
IsIncluded(schema, key) == <<key>> \notin schema

RECURSIVE Serialize(_, _, _, _)
\* The dict of one object: its own serialize_rules are added to the rules
\* inherited from the object it is nested in; every column and relationship
\* still included is written, a relationship by serializing what it holds
\* under the forked rules.
Serialize(kind, id, inherited, depth) ==
    IF depth > MaxDepth THEN RecursionError
    ELSE
      LET schema == inherited \cup OwnRules(kind)
          keys == {k \in Columns(kind) \cup Relationships(kind) :
                      IsIncluded(schema, k)}
          One(k, target, id2) ==
              IF id2 = None THEN NullObj
              ELSE Serialize(target, id2, Fork(schema, k), depth + 1)
          Many(k, target, ids) ==
              [i \in DOMAIN ids |->
                  Serialize(target, ids[i], Fork(schema, k), depth + 1)]
          Related(k) ==
              CASE kind = "Game" -> Many(k, "Review", GameReviews(id))
                [] kind = "User" -> Many(k, "Review", UserReviews(id))
                [] kind = "Review" /\ k = "game" -> One(k, "Game", ReviewGame(id))
                [] kind = "Review" /\ k = "user" -> One(k, "User", ReviewUser(id))
      IN  [k \in keys |-> IF k \in Columns(kind)
                            THEN ColumnValue(kind, id, k)
                            ELSE Related(k)]

\* obj.to_dict()
to_dict(kind, id) ==
    /\ Idle
    /\ id \in DOMAIN Table(kind)
    /\ out' = [kind |-> kind, id |-> id, dict |-> Serialize(kind, id, {}, 1)]
    /\ result' = Outcome("to_dict", "ok")
    /\ UNCHANGED <<games, users, reviews, now, fkEnforced>>
    /\ UNCHANGED seedVars

\* list(game.users): a read of the association proxy.
ReadGameUsers(g) ==
    /\ Idle
    /\ g \in DOMAIN games
    /\ out' = [kind |-> "users", id |-> g, list |-> GameUsers(g)]
    /\ result' = Outcome("users", "ok")
    /\ UNCHANGED <<games, users, reviews, now, fkEnforced>>
    /\ UNCHANGED seedVars

\* The caller is done with the value read.
Discard ==
    /\ out.kind # "none"
    /\ out' = [kind |-> "none"]
    /\ UNCHANGED <<games, users, reviews, now, fkEnforced, result>>
    /\ UNCHANGED seedVars

-----------------------------------------------------------------------------
(* Initial state and the specification of the store's operations.          *)

NoSnapshot == [games |-> EmptyTable, users |-> EmptyTable, reviews |-> EmptyTable]

Init ==
    /\ games = EmptyTable
    /\ users = EmptyTable
    /\ reviews = EmptyTable
    /\ now = 0
    /\ fkEnforced \in BOOLEAN
    /\ result = Outcome("none", "ok")
    /\ out = [kind |-> "none"]
    /\ pc = "idle"
    /\ snapshot = NoSnapshot
    /\ session_users = <<>>
    /\ session_games = <<>>
    /\ session_reviews = <<>>
    /\ reviews_list = <<>>
    /\ g_review = <<>>
    /\ loop_i = 0

TitleInputs == Titles \cup {NoneStr}
GameIds == 1..MaxGames
UserIds == 1..MaxUsers
ReviewIds == 1..MaxReviews
GameRefs == GameIds \cup {None}
UserRefs == UserIds \cup {None}

Next ==
    \/ \E t \in TitleInputs :
          NextId(games) <= MaxGames /\ CreateGame(t, NoneStr, NoneStr, None)
    \/ \E g \in GameIds, t \in TitleInputs, loaded \in BOOLEAN :
          UpdateGame(g, t, None, loaded)
    \/ \E g \in GameIds : DeleteGame(g)
    \/ NextId(users) <= MaxUsers /\ CreateUser("u")
    \/ \E u \in UserIds : DeleteUser(u)
    \/ \E g \in GameRefs, u \in UserRefs :
          NextId(reviews) <= MaxReviews /\ CreateReview(None, NoneStr, g, u)
    \/ \E r \in ReviewIds, g \in GameRefs, u \in UserRefs :
          UpdateReview(r, None, g, u, TRUE)
    \/ \E r \in ReviewIds : DeleteReview(r)
    \/ \E g \in GameIds, u \in UserIds :
          NextId(reviews) <= MaxReviews /\ AddUserToGame(g, u)

Spec == Init /\ [][Next]_vars

\* The operations on Game alone.
NextGames ==
    \/ \E t \in TitleInputs, p \in {None, 30} :
          NextId(games) <= MaxGames /\ CreateGame(t, NoneStr, NoneStr, p)
    \/ \E g \in GameIds, t \in TitleInputs, p \in {None, 30}, loaded \in BOOLEAN :
          UpdateGame(g, t, p, loaded)
    \/ \E g \in GameIds : DeleteGame(g)

SpecGames == Init /\ [][NextGames]_vars

-----------------------------------------------------------------------------
(* Claims about the store's constraints: C1 and C3 under Spec, C2 under    *)
(* SpecGames.                                                              *)

\* C1: in every reachable state every stored Review has a game_id that is
\* the id of a stored Game and a user_id that is the id of a stored User.
C1_ReferentialIntegrity ==
    \A r \in DOMAIN reviews :
        /\ reviews[r].game_id \in DOMAIN games
        /\ reviews[r].user_id \in DOMAIN users

\* C2 as stated: no two stored Games have the same title.
C2_NoTwoGamesShareTitle ==
    \A g1, g2 \in DOMAIN games :
        g1 # g2 => games[g1].title # games[g2].title

\* C2 as amended, state part: no two stored Games have the same non-NULL
\* title.
UniqueNonNullTitles ==
    \A g1, g2 \in DOMAIN games :
        (g1 # g2 /\ games[g1].title # NoneStr)
            => games[g1].title # games[g2].title

\* C2 as amended: creating a Game whose non-NULL title is the title of a
\* stored Game raises IntegrityError and leaves the games table unchanged,
\* and in every reachable state no two stored Games have the same non-NULL
\* title (Games without a title may coexist).
C2_UniqueNonNullTitle ==
    /\ []UniqueNonNullTitles
    /\ [][\A t \in Titles :
            ((\E g \in DOMAIN games : games[g].title = t)
                /\ \E p \in {None, 30} : CreateGame(t, NoneStr, NoneStr, p))
            => (result'.status = "IntegrityError" /\ games' = games)]_vars

\* C2 witness: the creation of a second Game with a stored title has just
\* been refused, and the Game holding that title is still stored.
C2_Witness ==
    /\ result = Outcome("CreateGame", "IntegrityError")
    /\ \E g \in DOMAIN games : games[g].title \in Titles

\* C3: creating a Review whose game_id or user_id is missing or names no
\* stored row fails and inserts no reviews row.
C3_CreateReviewNeedsGameAndUser ==
    [][\A g \in GameRefs, u \in UserRefs :
          ((g \notin DOMAIN games \/ u \notin DOMAIN users)
              /\ CreateReview(None, NoneStr, g, u))
          => (result'.status = "IntegrityError" /\ reviews' = reviews)]_vars

-----------------------------------------------------------------------------
(* Claims about the write path of Game.users (checked under SpecProxy).    *)

Range(seq) == {seq[i] : i \in DOMAIN seq}

Count(seq, x) == Cardinality({i \in DOMAIN seq : seq[i] = x})

Linked(g, u) ==
    \E r \in DOMAIN reviews : reviews[r].game_id = g /\ reviews[r].user_id = u

\* C8 as stated: addUserToGame creates nothing when a Review already links
\* the game and the user.
C8_AddUserToGameIsFindOrCreate ==
    [][\A g \in DOMAIN games, u \in DOMAIN users :
          (Linked(g, u) /\ AddUserToGame(g, u)) => reviews' = reviews]_vars

\* C8 as amended: addUserToGame creates exactly one Review joining the game
\* and the user, with score and comment empty, whether or not a Review
\* already links them; every earlier Review is kept unchanged, so applying
\* it twice leaves two such Reviews.
C8_AddUserToGameAlwaysCreates ==
    [][\A g \in DOMAIN games, u \in DOMAIN users :
          AddUserToGame(g, u) =>
            /\ Cardinality(DOMAIN reviews' \ DOMAIN reviews) = 1
            /\ DOMAIN reviews \subseteq DOMAIN reviews'
            /\ \A r \in DOMAIN reviews : reviews'[r] = reviews[r]
            /\ \A r \in DOMAIN reviews' \ DOMAIN reviews :
                  /\ reviews'[r].game_id = g
                  /\ reviews'[r].user_id = u
                  /\ reviews'[r].score = None
                  /\ reviews'[r].comment = NoneStr]_vars

\* C8 witness: addUserToGame has just run for a game and a user that a
\* Review already linked, and two Reviews now link them.
C8_Witness ==
    /\ result = Outcome("AddUserToGame", "ok")
    /\ \E g \in DOMAIN games, u \in DOMAIN users :
          /\ Cardinality({r \in DOMAIN reviews :
                reviews[r].game_id = g /\ reviews[r].user_id = u}) = 2
          /\ \A r \in DOMAIN reviews :
                reviews[r].score = None /\ reviews[r].comment = NoneStr

-----------------------------------------------------------------------------
(* Timestamps: the store's operations with the clock advancing.            *)

TimeIds == 1..TimeRows
TimeRefs == TimeIds \cup {None}

\* Rows stored in the three tables together.
RowCount == Cardinality(DOMAIN games) + Cardinality(DOMAIN users)
              + Cardinality(DOMAIN reviews)

RoomFor(table) == RowCount < TimeRows /\ NextId(table) <= TimeRows

NextTime ==
    \/ Tick
    \/ \E t \in TitleInputs :
          RoomFor(games) /\ CreateGame(t, NoneStr, NoneStr, None)
    \/ \E g \in TimeIds, t \in TitleInputs, loaded \in BOOLEAN :
          UpdateGame(g, t, None, loaded)
    \/ \E g \in TimeIds : DeleteGame(g)
    \/ RoomFor(users) /\ CreateUser("u")
    \/ \E u \in TimeIds, n \in {"u", "v"}, loaded \in BOOLEAN :
          UpdateUser(u, n, loaded)
    \/ \E u \in TimeIds : DeleteUser(u)
    \/ \E g \in TimeRefs, u \in TimeRefs :
          RoomFor(reviews) /\ CreateReview(None, NoneStr, g, u)
    \/ \E r \in TimeIds, sc \in {None, 9}, loaded \in BOOLEAN :
          UpdateReview(r, sc, reviews[r].game_id, reviews[r].user_id, loaded)
    \/ \E r \in TimeIds : DeleteReview(r)
    \* the Review is added beside the Game and the User it needs
    \/ \E g \in TimeIds, u \in TimeIds :
          NextId(reviews) <= TimeRows /\ AddUserToGame(g, u)

SpecTime == Init /\ [][NextTime]_vars

\* A table's rows across one step: a row that stays keeps created_at and
\* never lowers updated_at, a rewritten row carries the time of the write;
\* a new row carries created_at and `fresh` says what its updated_at is.
RowTimes(old, new, fresh(_)) ==
    \A i \in DOMAIN new :
        IF i \in DOMAIN old
          THEN /\ new[i].created_at = old[i].created_at
               /\ new[i].updated_at >= old[i].updated_at
               /\ new[i] # old[i] => new[i].updated_at = now
          ELSE /\ new[i].created_at = now
               /\ fresh(new[i].updated_at)

SetByWrite(t) == t = now
LeftEmpty(t) == t = None

\* C4 as stated: created_at is set at creation and kept by every update;
\* updated_at is set by every mutating write, the creation included, and
\* never moves back.
C4_UpdatedAtSetByEveryWrite ==
    [][/\ RowTimes(games, games', SetByWrite)
       /\ RowTimes(users, users', SetByWrite)
       /\ RowTimes(reviews, reviews', SetByWrite)]_vars

\* C4 as amended: created_at is set at creation and kept by every update;
\* updated_at is left empty by the creation and is set to the time of the
\* write by every update that writes the row (the update that clears a
\* Review's game_id or user_id when its Game or User is deleted included),
\* its value after a write being later than or equal to its value before.
C4_UpdatedAtSetByUpdatesOnly ==
    [][/\ RowTimes(games, games', LeftEmpty)
       /\ RowTimes(users, users', LeftEmpty)
       /\ RowTimes(reviews, reviews', LeftEmpty)]_vars

\* C4 witness: a Game created at one time and updated at a later one, beside
\* a Review whose only write was its creation.
C4_Witness ==
    /\ result.op = "UpdateGame"
    /\ \E g \in DOMAIN games :
          games[g].created_at # None /\ games[g].updated_at > games[g].created_at
    /\ \E r \in DOMAIN reviews : reviews[r].updated_at = None

-----------------------------------------------------------------------------
(* The seed script, server/seed.py, one action per statement.  Its deletes *)
(* and inserts run in one transaction: the tables below are that           *)
(* transaction's view, and an exception rolls them back to `snapshot`.      *)

\* for i in range(3)
NumSeedUsers == 3
\* randint(0, 10)
RandLow == 0
RandHigh == 10

\* fake.name(): some string.  No constraint and no relationship reads a
\* User's name, so one value stands for all of them.
FakeNames == {"Ann Lee"}

Tables == [games |-> games, users |-> users, reviews |-> reviews]

\* An exception leaves the `with` block: nothing was committed.
SeedAbort(exception) ==
    /\ games' = snapshot.games
    /\ users' = snapshot.users
    /\ reviews' = snapshot.reviews
    /\ result' = Outcome("seed", exception)
    /\ pc' = "done"

\* Review.query.delete()
SeedDeleteReviews ==
    /\ pc = "idle"
    /\ snapshot' = Tables
    /\ reviews' = EmptyTable
    /\ pc' = "delete_users"
    /\ result' = Outcome("seed", "running")
    /\ UNCHANGED <<games, users, now, fkEnforced, out, session_users,
                   session_games, session_reviews, reviews_list, g_review,
                   loop_i>>

\* User.query.delete(): a bulk DELETE, refused by a store that enforces
\* foreign keys while a reviews row still names a user.
SeedDeleteUsers ==
    /\ pc = "delete_users"
    /\ IF fkEnforced /\ \E r \in DOMAIN reviews : reviews[r].user_id \in DOMAIN users
         THEN SeedAbort("IntegrityError")
         ELSE /\ users' = EmptyTable
              /\ pc' = "delete_games"
              /\ UNCHANGED <<games, reviews, result>>
    /\ UNCHANGED <<now, fkEnforced, out, snapshot, session_users,
                   session_games, session_reviews, reviews_list, g_review,
                   loop_i>>

\* Mutant of SeedDeleteGames: the games table is not emptied.
SeedDeleteGames_Skipped ==
    /\ pc = "delete_games"
    /\ pc' = "users"
    /\ UNCHANGED <<games, users, reviews, result>>
    /\ UNCHANGED <<now, fkEnforced, out, snapshot, session_users,
                   session_games, session_reviews, reviews_list, g_review,
                   loop_i>>

\* Game.query.delete()
SeedDeleteGames ==
    /\ pc = "delete_games"
    /\ IF fkEnforced /\ \E r \in DOMAIN reviews : reviews[r].game_id \in DOMAIN games
         THEN SeedAbort("IntegrityError")
         ELSE /\ games' = EmptyTable
              /\ pc' = "users"
              /\ UNCHANGED <<users, reviews, result>>
    /\ UNCHANGED <<now, fkEnforced, out, snapshot, session_users,
                   session_games, session_reviews, reviews_list, g_review,
                   loop_i>>

\* One iteration of `for i in range(3)`: u = User(name=fake.name());
\* users.append(u).  After the last one, db.session.add_all(users).
SeedNewUser(name) ==
    /\ pc = "users"
    /\ Len(session_users) < NumSeedUsers
    /\ session_users' = Append(session_users, [name |-> name])
    /\ pc' = IF Len(session_users) + 1 = NumSeedUsers THEN "games" ELSE "users"
    /\ UNCHANGED <<games, users, reviews, now, fkEnforced, result, out,
                   snapshot, session_games, session_reviews, reviews_list,
                   g_review, loop_i>>

SeedGames ==
    << [title |-> "Mega Adventure", genre |-> "Survival",
        platform |-> "XBox", price |-> 30],
       [title |-> "Golf Pro IV", genre |-> "Sports",
        platform |-> "PlayStation", price |-> 20],
       [title |-> "Dance, dance, dance", genre |-> "Party",
        platform |-> "PlayStation", price |-> 7] >>

\* games = []; games.append(Game(...)) three times; db.session.add_all(games)
SeedNewGames ==
    /\ pc = "games"
    /\ session_games' = SeedGames
    /\ g_review' = [i \in DOMAIN SeedGames |-> None]
    /\ pc' = "reviews"
    /\ UNCHANGED <<games, users, reviews, now, fkEnforced, result, out,
                   snapshot, session_users, session_reviews, reviews_list,
                   loop_i>>

\* The four Review objects; user and game are positions in the lists
\* users and games.
SeedReviews(random_score) ==
    << [score |-> 9, comment |-> "Amazing action", user |-> 1, game |-> 1],
       [score |-> 2, comment |-> "Boring", user |-> 1, game |-> 2],
       [score |-> 5, comment |-> "Not enough levels", user |-> 2, game |-> 1],
       [score |-> random_score, comment |-> "confusing instructions",
        user |-> 3, game |-> 3] >>

\* reviews = []; reviews.append(Review(...)) four times;
\* db.session.add_all(reviews)
SeedNewReviews(random_score) ==
    /\ pc = "reviews"
    /\ session_reviews' = SeedReviews(random_score)
    /\ reviews_list' = [i \in 1..Len(SeedReviews(random_score)) |-> i]
    /\ loop_i' = 0
    /\ pc' = "loop"
    /\ UNCHANGED <<games, users, reviews, now, fkEnforced, result, out,
                   snapshot, session_users, session_games, g_review>>

RemoveAt(seq, k) == [i \in 1..(Len(seq) - 1) |->
                        IF i < k THEN seq[i] ELSE seq[i + 1]]

\* Mutant of SeedAssign: the assignment acting as a relationship, moving
\* the Review to the Game.
SeedAssign_AsRelationship(g, r) ==
    /\ g_review' = [g_review EXCEPT ![g] = r]
    /\ session_reviews' = [session_reviews EXCEPT ![r].game = g]

\* g.review = r: `review` is no column or relationship of Game (the
\* relationship is `reviews`), so this sets a plain attribute of the object
\* and leaves the Review objects in the session as they are.
SeedAssign(g, r) ==
    /\ g_review' = [g_review EXCEPT ![g] = r]
    /\ UNCHANGED session_reviews

\* One iteration of `for g in games`: r = rc(reviews); g.review = r;
\* reviews.remove(r).  rc raises IndexError on an empty list.
SeedLoop ==
    /\ pc = "loop"
    /\ loop_i < Len(session_games)
    /\ IF reviews_list = <<>>
         THEN /\ SeedAbort("IndexError")
              /\ UNCHANGED <<reviews_list, g_review, session_reviews, loop_i>>
         ELSE /\ \E k \in DOMAIN reviews_list :
                    /\ SeedAssign(loop_i + 1, reviews_list[k])
                    /\ reviews_list' = RemoveAt(reviews_list, k)
              /\ loop_i' = loop_i + 1
              /\ UNCHANGED <<games, users, reviews, result, pc>>
    /\ UNCHANGED <<now, fkEnforced, out, snapshot, session_users,
                   session_games>>

\* INSERT of a list of pending objects, ids assigned in list order.
InsertSeq(table, rows) ==
    [i \in DOMAIN table \cup (NextId(table)..(NextId(table) + Len(rows) - 1)) |->
        IF i \in DOMAIN table THEN table[i] ELSE rows[i - NextId(table) + 1]]

PendingUserRows == [i \in DOMAIN session_users |-> UserRow(session_users[i].name)]

PendingGameRows ==
    [i \in DOMAIN session_games |->
        GameRow(session_games[i].title, session_games[i].genre,
                session_games[i].platform, session_games[i].price)]

\* A pending Review's game_id and user_id are the ids given to the objects
\* it references.
PendingReviewRows ==
    [i \in DOMAIN session_reviews |->
        ReviewRow(session_reviews[i].score, session_reviews[i].comment,
                  NextId(games) + session_reviews[i].game - 1,
                  NextId(users) + session_reviews[i].user - 1)]

PendingTitlesClash ==
    \/ \E i \in DOMAIN session_games : TitleTaken(session_games[i].title, {})
    \/ \E i, j \in DOMAIN session_games :
          /\ i # j
          /\ session_games[i].title # NoneStr
          /\ session_games[i].title = session_games[j].title

\* db.session.commit(): flushes the pending users, games and reviews.
SeedCommit ==
    /\ pc = "loop"
    /\ loop_i = Len(session_games)
    /\ IF PendingTitlesClash
         THEN SeedAbort("IntegrityError")
         ELSE /\ users' = InsertSeq(users, PendingUserRows)
              /\ games' = InsertSeq(games, PendingGameRows)
              /\ reviews' = InsertSeq(reviews, PendingReviewRows)
              /\ result' = Outcome("seed", "ok")
              /\ pc' = "done"
    /\ UNCHANGED <<now, fkEnforced, out, snapshot, session_users,
                   session_games, session_reviews, reviews_list, g_review,
                   loop_i>>

\* The script ends; its objects are gone, the store stays.
SeedExit ==
    /\ pc = "done"
    /\ pc' = "idle"
    /\ snapshot' = NoSnapshot
    /\ session_users' = <<>>
    /\ session_games' = <<>>
    /\ session_reviews' = <<>>
    /\ reviews_list' = <<>>
    /\ g_review' = <<>>
    /\ loop_i' = 0
    /\ UNCHANGED <<games, users, reviews, now, fkEnforced, result, out>>

PriorIds == 1..PriorRows
PriorRefs == PriorIds \cup {None}

NextSeed ==
    \/ \E t \in {"Mega Adventure", NoneStr} :
          NextId(games) <= PriorRows /\ CreateGame(t, NoneStr, NoneStr, None)
    \/ NextId(users) <= PriorRows /\ CreateUser("u")
    \/ \E g \in PriorRefs, u \in PriorRefs :
          NextId(reviews) <= PriorRows /\ CreateReview(None, NoneStr, g, u)
    \/ SeedDeleteReviews
    \/ SeedDeleteUsers
    \/ SeedDeleteGames
    \/ \E n \in FakeNames : SeedNewUser(n)
    \/ SeedNewGames
    \/ \E sc \in RandLow..RandHigh : SeedNewReviews(sc)
    \/ SeedLoop
    \/ SeedCommit
    \/ SeedExit

SpecSeed == Init /\ [][NextSeed]_vars

-----------------------------------------------------------------------------
(* Claims about the seed script (checked under SpecSeed).                  *)

AfterDeletes == pc \in {"users", "games", "reviews", "loop"}

SeedCommitted == pc = "done" /\ result = Outcome("seed", "ok")

GameFields(g) == [title |-> games[g].title, genre |-> games[g].genre,
                  platform |-> games[g].platform, price |-> games[g].price]

\* The stored Review r pairs the n-th stored User with the Game titled
\* `title`.
Pairs(r, n, title) ==
    /\ reviews[r].user_id \in DOMAIN users
    /\ Cardinality({u \in DOMAIN users : u <= reviews[r].user_id}) = n
    /\ reviews[r].game_id \in DOMAIN games
    /\ games[reviews[r].game_id].title = title

\* C9: whatever the tables held, the seed run empties all three before it
\* inserts, never fails, and leaves exactly 3 Users, the 3 Games and the 4
\* Reviews u1-Mega Adventure (9), u1-Golf Pro IV (2), u2-Mega Adventure (5)
\* and u3-'Dance, dance, dance' (a score in 0..10).
C9_SeedReplacesEverything ==
    /\ AfterDeletes =>
          games = EmptyTable /\ users = EmptyTable /\ reviews = EmptyTable
    /\ pc = "done" =>
          /\ result = Outcome("seed", "ok")
          /\ Cardinality(DOMAIN users) = 3
          /\ Cardinality(DOMAIN games) = 3
          /\ {GameFields(g) : g \in DOMAIN games} = Range(SeedGames)
          /\ Cardinality(DOMAIN reviews) = 4
          /\ \E r1, r2, r3, r4 \in DOMAIN reviews :
                /\ {r1, r2, r3, r4} = DOMAIN reviews
                /\ Pairs(r1, 1, "Mega Adventure") /\ reviews[r1].score = 9
                /\ Pairs(r2, 1, "Golf Pro IV") /\ reviews[r2].score = 2
                /\ Pairs(r3, 2, "Mega Adventure") /\ reviews[r3].score = 5
                /\ Pairs(r4, 3, "Dance, dance, dance")
                /\ reviews[r4].score \in 0..10

\* C9 witness: a seed run has committed over tables that held a Game titled
\* 'Mega Adventure', a User and a Review.
C9_Witness ==
    /\ SeedCommitted
    /\ \E g \in DOMAIN snapshot.games :
          snapshot.games[g].title = "Mega Adventure"
    /\ snapshot.users # EmptyTable
    /\ snapshot.reviews # EmptyTable

Drawn == {g_review[g] : g \in 1..loop_i}

\* C10: the loop `for g in games` never draws from an empty list, draws a
\* different Review each time, has run once per Game when the script
\* commits, leaving one Review in the list, and the reviews rows committed
\* are those of the four Review objects as constructed, whatever was drawn.
C10_LoopIsCosmetic ==
    /\ result # Outcome("seed", "IndexError")
    /\ pc \in {"loop", "done"} =>
          /\ loop_i <= Len(session_games)
          /\ Drawn \subseteq DOMAIN session_reviews
          /\ Cardinality(Drawn) = loop_i
          /\ Len(reviews_list) = Len(session_reviews) - loop_i
          /\ Range(reviews_list) = DOMAIN session_reviews \ Drawn
    /\ pc = "done" =>
          /\ loop_i = 3
          /\ Len(reviews_list) = 1
          /\ Cardinality(DOMAIN reviews) = 4
          /\ \E sc \in RandLow..RandHigh :
                \A i \in DOMAIN SeedReviews(sc) :
                   \E r \in DOMAIN reviews :
                      /\ reviews[r].score = SeedReviews(sc)[i].score
                      /\ reviews[r].comment = SeedReviews(sc)[i].comment
                      /\ Pairs(r, SeedReviews(sc)[i].user,
                               SeedGames[SeedReviews(sc)[i].game].title)

\* C10 witness: the script has committed after a run of the loop that gave
\* a Game a Review of another Game.
C10_Witness ==
    /\ SeedCommitted
    /\ \E g \in DOMAIN g_review :
          /\ g_review[g] \in DOMAIN session_reviews
          /\ session_reviews[g_review[g]].game # g

-----------------------------------------------------------------------------
(* Reads: the store's operations with to_dict() and Game.users read        *)
(* between them.                                                           *)

SerIds == 1..SerRows
SerRefs == SerIds \cup {None}
SerReviewIds == 1..SerReviews
NothingRead == out.kind = "none"

NextRead ==
    \/ \E t \in {"Mega Adventure", NoneStr} :
          /\ NothingRead /\ NextId(games) <= SerRows
          /\ CreateGame(t, NoneStr, NoneStr, None)
    \/ \E g \in SerIds : NothingRead /\ DeleteGame(g)
    \/ NothingRead /\ NextId(users) <= SerRows /\ CreateUser("u")
    \/ \E u \in SerIds : NothingRead /\ DeleteUser(u)
    \/ \E g \in SerRefs, u \in SerRefs :
          /\ NothingRead /\ NextId(reviews) <= SerReviews
          /\ CreateReview(None, NoneStr, g, u)
    \/ \E g \in SerIds, u \in SerIds :
          /\ NothingRead /\ NextId(reviews) <= SerReviews
          /\ AddUserToGame(g, u)
    \/ \E kind \in {"Game", "Review", "User"}, id \in SerIds \cup SerReviewIds :
          NothingRead /\ to_dict(kind, id)
    \/ \E g \in SerIds : NothingRead /\ ReadGameUsers(g)
    \/ Discard

\* The operations that make and unmake Reviews, the proxy's append among
\* them, without the reads.
NextProxy ==
    \/ \E t \in {"Mega Adventure", NoneStr} :
          NextId(games) <= SerRows /\ CreateGame(t, NoneStr, NoneStr, None)
    \/ NextId(users) <= SerRows /\ CreateUser("u")
    \/ \E g \in SerRefs, u \in SerRefs :
          NextId(reviews) <= SerReviews /\ CreateReview(None, NoneStr, g, u)
    \/ \E r \in SerReviewIds : DeleteReview(r)
    \/ \E g \in SerIds, u \in SerIds :
          NextId(reviews) <= SerReviews /\ AddUserToGame(g, u)

SpecProxy == Init /\ [][NextProxy]_vars

SpecRead == Init /\ [][NextRead]_vars

-----------------------------------------------------------------------------
(* Claims about to_dict() and the read path of Game.users (checked under   *)
(* SpecRead).                                                              *)

\* C7 as stated: the users view of a Game is the set of distinct Users its
\* Reviews reference; a User who reviewed the Game several times appears
\* once, and no User without a Review of the Game appears.
C7_UsersViewIsDistinctSet ==
    out.kind = "users" =>
        /\ Range(out.list) \cap DOMAIN users
             = {u \in DOMAIN users : \E r \in DOMAIN reviews :
                    reviews[r].game_id = out.id /\ reviews[r].user_id = u}
        /\ \A u \in DOMAIN users : Count(out.list, u) <= 1

\* C7 as amended: the users view of a Game G holds one entry per Review of
\* G, the User that Review references (None when it references none); a
\* User with n Reviews of G appears n times, and a User without a Review of
\* G does not appear.
C7_UsersViewOnePerReview ==
    out.kind = "users" =>
        /\ Len(out.list)
             = Cardinality({r \in DOMAIN reviews : reviews[r].game_id = out.id})
        /\ \A u \in DOMAIN users :
              Count(out.list, u)
                = Cardinality({r \in DOMAIN reviews :
                                  /\ reviews[r].game_id = out.id
                                  /\ reviews[r].user_id = u})
        /\ Count(out.list, None)
             = Cardinality({r \in DOMAIN reviews :
                               /\ reviews[r].game_id = out.id
                               /\ reviews[r].user_id \notin DOMAIN users})

\* C7 witness: the users view of a Game reviewed twice by one User has been
\* read.
C7_Witness ==
    /\ out.kind = "users"
    /\ \E u \in DOMAIN users :
          Cardinality({r \in DOMAIN reviews :
              reviews[r].game_id = out.id /\ reviews[r].user_id = u}) = 2

Target(key) == CASE key = "reviews" -> "Review"
                 [] key = "game" -> "Game"
                 [] key = "user" -> "User"

IsDict(d) == d # NullObj /\ d # RecursionError

RECURSIVE IsTree(_, _, _)
\* The dict d of an object of class kind, nested in the objects `above`,
\* is finite and shows no object a second time along a path from the root.
IsTree(kind, d, above) ==
    IF d = NullObj THEN TRUE
    ELSE IF d = RecursionError THEN FALSE
    ELSE /\ <<kind, d["id"]>> \notin above
         /\ \A k \in DOMAIN d \cap Relationships(kind) :
               IF k = "reviews"
                 THEN \A i \in DOMAIN d[k] :
                         IsTree(Target(k), d[k][i], above \cup {<<kind, d["id"]>>})
                 ELSE IsTree(Target(k), d[k], above \cup {<<kind, d["id"]>>})

Kinds == {"Game", "Review", "User"}

\* C5: to_dict() of any Game, Review or User of any reachable store ends
\* and returns a finite tree: along one path from the root no record is
\* written twice.
C5_SerializeYieldsTree ==
    out.kind \in Kinds => IsTree(out.kind, out.dict, {})

\* C5 witness: a Game reviewed twice by the same User has been serialized.
C5_Witness ==
    /\ out.kind = "Game"
    /\ \E u \in DOMAIN users :
          Cardinality({r \in DOMAIN reviews :
              reviews[r].game_id = out.id /\ reviews[r].user_id = u}) = 2

\* The dict d shows exactly the columns of the stored row id of class kind,
\* and the relationships rels.
Shows(d, kind, id, rels) ==
    /\ IsDict(d)
    /\ DOMAIN d = Columns(kind) \cup rels
    /\ d["id"] = id

\* d is the nested dict of the object a Review references through a
\* scalar relationship: all its columns and no `reviews`; None when the
\* Review references no stored row.
ShowsReferenced(d, kind, id) ==
    IF id \in DOMAIN Table(kind)
      THEN Shows(d, kind, id, {})
      ELSE d = NullObj

\* C6: a serialized Game holds every one of its Reviews, each without
\* `game` and with its `user` (all the User's columns); a serialized Review
\* holds its `game` and its `user`, each without `reviews`; a serialized
\* User holds every one of its Reviews, each without `user` and with its
\* `game`; nothing else is left out.
C6_SerializeOmitsOnlyBackEdges ==
    /\ out.kind = "Game" =>
          /\ Shows(out.dict, "Game", out.id, {"reviews"})
          /\ out.dict["title"] = games[out.id].title
          /\ Len(out.dict["reviews"]) = Len(GameReviews(out.id))
          /\ \A i \in DOMAIN out.dict["reviews"] :
                LET r == GameReviews(out.id)[i]
                    d == out.dict["reviews"][i]
                IN  /\ Shows(d, "Review", r, {"user"})
                    /\ d["game_id"] = out.id
                    /\ ShowsReferenced(d["user"], "User", reviews[r].user_id)
    /\ out.kind = "Review" =>
          /\ Shows(out.dict, "Review", out.id, {"game", "user"})
          /\ ShowsReferenced(out.dict["game"], "Game", reviews[out.id].game_id)
          /\ ShowsReferenced(out.dict["user"], "User", reviews[out.id].user_id)
    /\ out.kind = "User" =>
          /\ Shows(out.dict, "User", out.id, {"reviews"})
          /\ out.dict["name"] = users[out.id].name
          /\ Len(out.dict["reviews"]) = Len(UserReviews(out.id))
          /\ \A i \in DOMAIN out.dict["reviews"] :
                LET r == UserReviews(out.id)[i]
                    d == out.dict["reviews"][i]
                IN  /\ Shows(d, "Review", r, {"game"})
                    /\ d["user_id"] = out.id
                    /\ ShowsReferenced(d["game"], "Game", reviews[r].game_id)

\* C6 witness: a Review that references a stored Game and a stored User,
\* each with a second Review, has been serialized.
C6_Witness ==
    /\ out.kind = "Review"
    /\ reviews[out.id].game_id \in DOMAIN games
    /\ reviews[out.id].user_id \in DOMAIN users
    /\ Len(GameReviews(reviews[out.id].game_id)) = 2
    /\ Len(UserReviews(reviews[out.id].user_id)) = 2

=============================================================================
